---------------------------- MODULE Spec2Model ----------------------------
(***************************************************************************)
(* Model of src/main.py: the Maven artifact version checker.               *)
(*                                                                         *)
(* main() prints the persisted versions, loads the catalog and the email   *)
(* settings, then reconciles every catalog entry in order:                 *)
(*   check_for_new_version  (store read, remote lookup, comparison)        *)
(*   new version  -> update_current_version_in_db, build and print the     *)
(*                   notification (the send_email call is commented out)   *)
(*   no new version -> second store read; when it yields None a second     *)
(*                   remote lookup and an unconditional store write        *)
(* The sqlite table `versions` is a set of rows keyed by the identifier;   *)
(* the version column may hold NULL (Python None).                         *)
(***************************************************************************)
EXTENDS Integers, Sequences, FiniteSets, TLC

(* ------------------------------ bounds -------------------------------- *)
NumIds == 2
NumVersions == 2
MaxCatalog == 3
MaxFaults == 1

(* ----------------------------- value sets ----------------------------- *)
\* Python None: the result of a failed lookup, of a missing row, of a NULL column.
None == 0
\* Artifact identifiers (group_id, artifact_id), both fields non-empty.
Ids == 1..NumIds
\* Version strings; the numbers only name distinct strings, the code never orders them.
Versions == 1..NumVersions
\* A catalog entry whose group_id or artifact_id is missing or empty.
Malformed == 0
Entries == Ids \cup {Malformed}
\* A row of the table versions(group_id, artifact_id, version).
Rows == [id : Ids, ver : Versions \cup {None}]

RECURSIVE SeqsUpTo(_, _)
SeqsUpTo(S, n) ==
    IF n = 0 THEN {<<>>}
    ELSE LET shorter == SeqsUpTo(S, n - 1)
         IN  shorter \cup {Append(s, x) : s \in {t \in shorter : Len(t) = n - 1}, x \in S}

\* What json.load can deliver for artifacts.json: any ordered list of entries.
Catalogs == SeqsUpTo(Entries, MaxCatalog)

\* Outcome of one sqlite call: it works, a statement raises sqlite3.Error
\* ("exec"), or sqlite3.connect itself raises sqlite3.Error ("connect").
DbOk == {"ok"}
DbFaults == {"ok", "exec", "connect"}

VARIABLES
    store,        \* rows of the table versions in artifact_versions.db
    tableExists,  \* whether the table versions has been created
    pc,           \* position of main()
    report,       \* what print_current_versions printed in this run
    catalog,      \* artifacts, as loaded by load_artifacts_from_json
    idx,          \* position of the for loop in artifacts (1-based)
    rec,          \* locals of the current loop iteration, with its history
    last,         \* the iteration that has just completed (NoRec once the next one starts)
    prev,         \* summary of the completed iteration before that, of any run
    processed,    \* the identifiers reconciled in this run, in order
    resolved,     \* per identifier, the last version resolved for it in this run
    sent,         \* emails handed to send_email (SES) in this run
    faults,       \* sqlite calls that have raised so far
    par           \* loop bodies run at the same time on the store, and the store they started on

vars == <<store, tableExists, pc, report, catalog, idx, rec, last, prev, processed, resolved, sent, faults, par>>

(* ------------------------- pure functions ----------------------------- *)

\* SELECT version FROM versions WHERE group_id = ? AND artifact_id = ?; fetchone():
\* the values get_current_version_from_db can return when its statements succeed.
\* A missing row and a row whose version is NULL both give None.
SelectVersion(st, id) ==
    IF {r \in st : r.id = id} = {} THEN {None}
    ELSE {r.ver : r \in {q \in st : q.id = id}}

\* Variant: the write replaces the whole table by the one row it inserts.
ReplaceTable(st, id, version) ==
    {[id |-> id, ver |-> version]}

\* REPLACE INTO versions ...: the primary key (group_id, artifact_id) makes the
\* insert delete the row that holds the same key.
ReplaceInto(st, id, version) ==
    {r \in st : r.id # id} \cup {[id |-> id, ver |-> version]}

\* A Python truth test of a version value: None is false, a version string is true.
Truthy(v) == v # None

\* Variant: the branch for an artifact without a stored version is missing.
check_without_first_seen(current_version, latest_version) ==
    IF Truthy(latest_version) /\ Truthy(current_version) /\ latest_version # current_version
        THEN latest_version
    ELSE None

\* Variant: only a greater version counts as new.
check_ordered(current_version, latest_version) ==
    IF Truthy(latest_version) /\ Truthy(current_version) /\ latest_version > current_version
        THEN latest_version
    ELSE IF Truthy(latest_version) /\ current_version = None
        THEN latest_version
    ELSE None

\* Variant: every resolved version counts as new, equal to the stored one or not.
check_without_comparison(current_version, latest_version) ==
    IF Truthy(latest_version) THEN latest_version ELSE None

\* check_for_new_version, after its two lookups: the value it returns.
check_for_new_version(current_version, latest_version) ==
    IF Truthy(latest_version) /\ Truthy(current_version) /\ latest_version # current_version
        THEN latest_version
    ELSE IF Truthy(latest_version) /\ current_version = None
        THEN latest_version
    ELSE None

\* How main sorts the iteration (lines 164-185): "New version available" when
\* check_for_new_version returns a version, for an artifact it found no version
\* of (FirstSeen) or another version of (Upgraded); "No new version available"
\* otherwise, after a failed lookup (ResolutionFailed) or an equal one (Unchanged).
Transition(current_version, latest_version) ==
    IF Truthy(check_for_new_version(current_version, latest_version))
        THEN IF current_version = None THEN "FirstSeen" ELSE "Upgraded"
    ELSE IF latest_version = None THEN "ResolutionFailed"
    ELSE "Unchanged"

\* What get_latest_version can return: the text of <latest>, or None on a
\* transport error, a bad status, unparseable metadata or a missing field.
ResolverResults == Versions \cup {None}

(* ------------------------------ state --------------------------------- *)

NoPayload == [id |-> Malformed, new |-> None, previous |-> None]

\* The locals of one loop iteration; before/after, calls, writes, faulted,
\* emitted and sentBefore record what the iteration found and did, lines the
\* outcome lines main printed for it ("new" line 168, "nonew" line 185,
\* "first_added" line 189).
FreshRec(id, st, n) ==
    [id |-> id, before |-> st, after |-> st,
     current_version |-> None, latest_version |-> None, new_version |-> None,
     first_version |-> None, calls |-> 0, writes |-> 0, faulted |-> FALSE,
     emitted |-> FALSE, payload |-> NoPayload, sentBefore |-> n, lines |-> <<>>]

NoRec == FreshRec(Malformed, {}, 0)

\* The version every remote lookup of iteration r returned; None when a lookup
\* failed or two lookups disagreed.
SameRemote(r) ==
    IF r.calls = 1 THEN r.latest_version
    ELSE IF r.calls = 2 /\ r.latest_version = r.first_version THEN r.latest_version
    ELSE None

\* The version a completed iteration resolved: that of the lookup of line 78,
\* or of the second lookup of line 187 when the first one failed.
Resolved(r) == IF r.latest_version # None THEN r.latest_version ELSE r.first_version

\* The transition of a completed iteration.
TransitionOf(r) == Transition(r.current_version, r.latest_version)

\* What a later run can still know of an iteration: its identifier, the remote
\* version it saw and the store it left.
Summary(r) == [id |-> r.id, remote |-> SameRemote(r), after |-> r.after]

\* Workers (or runs) that execute the loop body of main at the same time: two,
\* a store call of the loop body reading or writing the row of one identifier.
Workers == {1, 2}

\* The locals of one worker: those of the loop body of main for identifier id,
\* at position p; previous is the version read for the body of the notification.
WorkerRec(id, p) ==
    [id |-> id, pc |-> p, current_version |-> None, latest_version |-> None,
     new_version |-> None, first_version |-> None, previous |-> None,
     emitted |-> FALSE]

\* No worker runs: main() alone uses the store.
NoPar == [init |-> {}, w |-> [w \in Workers |-> WorkerRec(Malformed, "idle")]]

\* The stores a run can find: at most one row per identifier (primary key).
KeyedStores == {st \in SUBSET [id : Ids, ver : Versions] :
                   \A r, q \in st : r.id = q.id => r = q}

InitMain ==
    /\ store \in KeyedStores
    /\ tableExists \in {t \in BOOLEAN : store # {} => t}
    /\ pc = "start"
    /\ report = "none"
    /\ catalog = <<>>
    /\ idx = 1
    /\ rec = NoRec
    /\ last = NoRec
    /\ prev = Summary(NoRec)
    /\ processed = <<>>
    /\ resolved = [id \in Ids |-> None]
    /\ sent = <<>>
    /\ faults = 0

\* A run of main() on the database file it finds.
Init ==
    /\ InitMain
    /\ par = NoPar

\* The table after a call whose statement raised: CREATE TABLE IF NOT EXISTS may
\* or may not have run before the failing statement.
TableAfterFault == {tableExists, TRUE}

\* One sqlite call with outcome f: at most MaxFaults calls raise in a behaviour.
DbCall(f) ==
    /\ f # "ok" => faults < MaxFaults
    /\ faults' = IF f = "ok" THEN faults ELSE faults + 1

\* The iteration ends: the next loop step takes the next catalog entry.
EndIteration(r, st) ==
    /\ last' = [r EXCEPT !.after = st]
    /\ UNCHANGED prev
    /\ processed' = Append(processed, r.id)
    /\ resolved' = IF Resolved(r) # None THEN [resolved EXCEPT ![r.id] = Resolved(r)]
                   ELSE resolved
    /\ rec' = NoRec
    /\ idx' = idx + 1
    /\ pc' = "loop"

\* sqlite3.connect raised: the except clause prints, then `if conn:` in the finally
\* clause reads the unbound local conn and main() dies with UnboundLocalError.
Crash ==
    /\ pc' = "crashed"
    /\ rec' = [rec EXCEPT !.faulted = TRUE]
    /\ UNCHANGED <<store, tableExists, report, catalog, idx, last, prev, processed, resolved, sent, par>>

(* ------------------------------ actions ------------------------------- *)

\* main line 145: print_current_versions. It has no CREATE TABLE, so on a
\* database without the table the SELECT raises sqlite3.Error.
PrintCurrentVersions(F) ==
    /\ pc = "start"
    /\ \E f \in F :
         /\ DbCall(f)
         /\ \/ /\ f = "ok"
               /\ report' = IF ~tableExists THEN "error"
                            ELSE IF store # {} THEN "rows" ELSE "empty"
               /\ pc' = "load"
               /\ UNCHANGED <<store, tableExists, catalog, idx, rec, last, prev, processed, resolved, sent, par>>
            \/ /\ f = "exec"
               /\ report' = "error"
               /\ pc' = "load"
               /\ UNCHANGED <<store, tableExists, catalog, idx, rec, last, prev, processed, resolved, sent, par>>
            \/ /\ f = "connect"
               /\ Crash

\* load_email_settings is called at main line 148 and defined nowhere in the
\* source: it yields the settings (TRUE) or nothing (FALSE).
load_email_settings == BOOLEAN

\* main lines 147-154: load the catalog ([] when the file is missing or is not
\* JSON) and the email settings; without settings main returns.
Load ==
    /\ pc = "load"
    /\ \E c \in Catalogs, email_settings \in load_email_settings :
         /\ catalog' = c
         /\ pc' = IF email_settings THEN "loop" ELSE "exit"
    /\ idx' = 1
    /\ UNCHANGED <<store, tableExists, report, rec, last, prev, processed, resolved, sent, faults, par>>

\* Variant: a malformed entry ends the loop in place of being skipped.
LoopHeadStopsOnMalformed ==
    /\ pc = "loop"
    /\ IF idx > Len(catalog) \/ catalog[idx] = Malformed
          THEN /\ pc' = "done"
               /\ UNCHANGED <<idx, rec, last, prev>>
       ELSE /\ rec' = FreshRec(catalog[idx], store, Len(sent))
            /\ pc' = "check_get"
            /\ last' = NoRec
            /\ prev' = IF last # NoRec THEN Summary(last) ELSE prev
            /\ UNCHANGED idx
    /\ UNCHANGED <<store, tableExists, report, catalog, processed, resolved, sent, faults, par>>

\* Variant: the loop is left after an iteration whose lookup failed.
LoopHeadStopsOnFailure ==
    /\ pc = "loop"
    /\ IF idx > Len(catalog) \/ (last # NoRec /\ last.latest_version = None)
          THEN /\ pc' = "done"
               /\ UNCHANGED <<idx, rec, last, prev>>
       ELSE IF catalog[idx] = Malformed
          THEN /\ idx' = idx + 1
               /\ UNCHANGED <<pc, rec, last, prev>>
       ELSE /\ rec' = FreshRec(catalog[idx], store, Len(sent))
            /\ pc' = "check_get"
            /\ last' = NoRec
            /\ prev' = IF last # NoRec THEN Summary(last) ELSE prev
            /\ UNCHANGED idx
    /\ UNCHANGED <<store, tableExists, report, catalog, processed, resolved, sent, faults, par>>

\* main lines 156-162: the for loop takes the next entry; a missing or empty
\* group_id or artifact_id is skipped with a warning.
LoopHead ==
    /\ pc = "loop"
    /\ IF idx > Len(catalog)
          THEN /\ pc' = "done"
               /\ UNCHANGED <<idx, rec, last, prev>>
       ELSE IF catalog[idx] = Malformed
          THEN /\ idx' = idx + 1
               /\ UNCHANGED <<pc, rec, last, prev>>
       ELSE /\ rec' = FreshRec(catalog[idx], store, Len(sent))
            /\ pc' = "check_get"
            /\ last' = NoRec
            /\ prev' = IF last # NoRec THEN Summary(last) ELSE prev
            /\ UNCHANGED idx
    /\ UNCHANGED <<store, tableExists, report, catalog, processed, resolved, sent, faults, par>>

\* check_for_new_version line 77: current_version = get_current_version_from_db(...)
CheckGet(F) ==
    /\ pc = "check_get"
    /\ \E f \in F :
         /\ DbCall(f)
         /\ \/ /\ f = "ok"
               /\ \E v \in SelectVersion(store, rec.id) :
                    rec' = [rec EXCEPT !.current_version = v]
               /\ tableExists' = TRUE
               /\ pc' = "check_resolve"
               /\ UNCHANGED <<store, report, catalog, idx, last, prev, processed, resolved, sent, par>>
            \/ /\ f = "exec"
               /\ rec' = [rec EXCEPT !.current_version = None, !.faulted = TRUE]
               /\ tableExists' \in TableAfterFault
               /\ pc' = "check_resolve"
               /\ UNCHANGED <<store, report, catalog, idx, last, prev, processed, resolved, sent, par>>
            \/ /\ f = "connect"
               /\ Crash

\* check_for_new_version lines 78-84 and main line 164-167:
\* latest_version = get_latest_version(...); new_version = the value returned;
\* main prints "New version available" (line 168) or "No new version
\* available" (line 185) for it.
CheckResolve ==
    /\ pc = "check_resolve"
    /\ \E latest \in ResolverResults :
         LET nv == check_for_new_version(rec.current_version, latest)
         IN  /\ rec' = [rec EXCEPT !.latest_version = latest,
                                   !.new_version = nv,
                                   !.calls = @ + 1,
                                   !.lines = <<IF Truthy(nv) THEN "new" ELSE "nonew">>]
             /\ pc' = IF Truthy(nv) THEN "update" ELSE "nonew"
    /\ UNCHANGED <<store, tableExists, report, catalog, idx, last, prev, processed, resolved, sent, faults, par>>

\* Variant: INSERT OR IGNORE in place of REPLACE, an existing row is kept.
update_insert_or_ignore(st, id, version, f) ==
    IF f = "ok" /\ {r \in st : r.id = id} = {}
        THEN st \cup {[id |-> id, ver |-> version]}
    ELSE st

\* update_current_version_in_db, lines 54-73: the store it leaves, by outcome.
update_current_version_in_db(st, id, version, f) ==
    IF f = "ok" THEN ReplaceInto(st, id, version) ELSE st

\* main lines 168-169: update_current_version_in_db(group_id, artifact_id, new_version)
Update(F) ==
    /\ pc = "update"
    /\ \E f \in F :
         /\ DbCall(f)
         /\ \/ /\ f \in {"ok", "exec"}
               /\ store' = update_current_version_in_db(store, rec.id, rec.new_version, f)
               /\ tableExists' \in IF f = "ok" THEN {TRUE} ELSE TableAfterFault
               /\ rec' = [rec EXCEPT !.writes = IF f = "ok" THEN @ + 1 ELSE @,
                                     !.faulted = @ \/ f # "ok"]
               /\ pc' = "body"
               /\ UNCHANGED <<report, catalog, idx, last, prev, processed, resolved, sent, par>>
            \/ /\ f = "connect"
               /\ Crash

\* main lines 171-176: subject and body are built; "Previous version" is read
\* from the store with get_current_version_from_db, after the update of line 169.
BuildBody(F) ==
    /\ pc = "body"
    /\ \E f \in F :
         /\ DbCall(f)
         /\ \/ /\ f = "ok"
               /\ \E v \in SelectVersion(store, rec.id) :
                    rec' = [rec EXCEPT !.payload =
                               [id |-> rec.id, new |-> rec.new_version, previous |-> v]]
               /\ tableExists' = TRUE
               /\ pc' = "notify"
               /\ UNCHANGED <<store, report, catalog, idx, last, prev, processed, resolved, sent, par>>
            \/ /\ f = "exec"
               /\ rec' = [rec EXCEPT !.payload =
                             [id |-> rec.id, new |-> rec.new_version, previous |-> None],
                                     !.faulted = TRUE]
               /\ tableExists' \in TableAfterFault
               /\ pc' = "notify"
               /\ UNCHANGED <<store, report, catalog, idx, last, prev, processed, resolved, sent, par>>
            \/ /\ f = "connect"
               /\ Crash

\* main lines 178-181: the send_email call is commented out, so nothing is handed
\* to SES; subject and body are printed. The iteration ends.
Notify ==
    /\ pc = "notify"
    /\ EndIteration([rec EXCEPT !.emitted = TRUE], store)
    /\ UNCHANGED <<store, tableExists, report, catalog, sent, faults, par>>

\* main lines 184-186: no new version; the store is read again.
NoNew(F) ==
    /\ pc = "nonew"
    /\ \E f \in F :
         /\ DbCall(f)
         /\ \/ /\ f = "ok"
               /\ \E v \in SelectVersion(store, rec.id) :
                    IF v = None
                       THEN /\ pc' = "first_resolve"
                            /\ UNCHANGED <<rec, idx, last, prev, processed, resolved>>
                       ELSE EndIteration(rec, store)
               /\ tableExists' = TRUE
               /\ UNCHANGED <<store, report, catalog, sent, par>>
            \/ /\ f = "exec"
               /\ rec' = [rec EXCEPT !.faulted = TRUE]
               /\ pc' = "first_resolve"
               /\ tableExists' \in TableAfterFault
               /\ UNCHANGED <<store, report, catalog, idx, last, prev, processed, resolved, sent, par>>
            \/ /\ f = "connect"
               /\ Crash

\* main line 187: first_version = get_latest_version(group_id, artifact_id)
FirstResolve ==
    /\ pc = "first_resolve"
    /\ \E first \in ResolverResults :
         rec' = [rec EXCEPT !.first_version = first, !.calls = @ + 1]
    /\ pc' = "first_update"
    /\ UNCHANGED <<store, tableExists, report, catalog, idx, last, prev, processed, resolved, sent, faults, par>>

\* main lines 188-189: update_current_version_in_db(..., first_version), whatever
\* first_version is, then "First version added to the database" is printed.
\* The iteration ends.
FirstUpdate(F) ==
    /\ pc = "first_update"
    /\ \E f \in F :
         /\ DbCall(f)
         /\ \/ /\ f \in {"ok", "exec"}
               /\ store' = update_current_version_in_db(store, rec.id, rec.first_version, f)
               /\ tableExists' \in IF f = "ok" THEN {TRUE} ELSE TableAfterFault
               /\ EndIteration([rec EXCEPT !.writes = IF f = "ok" THEN @ + 1 ELSE @,
                                           !.faulted = @ \/ f # "ok",
                                           !.lines = Append(@, "first_added")], store')
               /\ UNCHANGED <<report, catalog, sent, par>>
            \/ /\ f = "connect"
               /\ Crash

\* The process has ended (line 192 returned, or died); main() is invoked again
\* on the same database file.
Restart ==
    /\ pc \in {"done", "exit", "crashed"}
    /\ pc' = "start"
    /\ report' = "none"
    /\ catalog' = <<>>
    /\ idx' = 1
    /\ rec' = NoRec
    /\ prev' = IF last # NoRec THEN Summary(last) ELSE prev
    /\ last' = NoRec
    /\ processed' = <<>>
    /\ resolved' = [id \in Ids |-> None]
    /\ sent' = <<>>
    /\ UNCHANGED <<store, tableExists, faults, par>>

\* The program on a store whose operations succeed.
Next ==
    \/ PrintCurrentVersions(DbOk)
    \/ Load
    \/ LoopHead
    \/ CheckGet(DbOk)
    \/ CheckResolve
    \/ Update(DbOk)
    \/ BuildBody(DbOk)
    \/ Notify
    \/ NoNew(DbOk)
    \/ FirstResolve
    \/ FirstUpdate(DbOk)
    \/ Restart

Spec == Init /\ [][Next]_vars

\* The program on a store whose operations may raise sqlite3.Error.
NextFault ==
    \/ PrintCurrentVersions(DbFaults)
    \/ Load
    \/ LoopHead
    \/ CheckGet(DbFaults)
    \/ CheckResolve
    \/ Update(DbFaults)
    \/ BuildBody(DbFaults)
    \/ Notify
    \/ NoNew(DbFaults)
    \/ FirstResolve
    \/ FirstUpdate(DbFaults)
    \/ Restart

SpecFault == Init /\ [][NextFault]_vars

(* ------------------------- parallel workers --------------------------- *)

\* The loop body of main (lines 155-189) run by several workers, or by several
\* runs of main(), on one database file: every sqlite call is one step, and
\* the steps of the workers interleave. The store calls succeed.
InitPar ==
    /\ InitMain
    /\ \E ids \in [Workers -> Ids] :
         par = [init |-> store, w |-> [w \in Workers |-> WorkerRec(ids[w], "check_get")]]

\* The steps of a worker leave the variables of the sequential run alone.
ParFrame == UNCHANGED <<pc, report, catalog, idx, rec, last, prev, processed, resolved, sent, faults>>

\* check_for_new_version line 77: current_version = get_current_version_from_db(...)
ParCheckGet(w) ==
    /\ par.w[w].pc = "check_get"
    /\ \E v \in SelectVersion(store, par.w[w].id) :
         par' = [par EXCEPT !.w[w].current_version = v, !.w[w].pc = "check_resolve"]
    /\ tableExists' = TRUE
    /\ UNCHANGED store
    /\ ParFrame

\* check_for_new_version lines 78-84 and main lines 164-167.
ParCheckResolve(w) ==
    /\ par.w[w].pc = "check_resolve"
    /\ \E latest \in ResolverResults :
         LET nv == check_for_new_version(par.w[w].current_version, latest)
         IN  par' = [par EXCEPT !.w[w].latest_version = latest,
                                !.w[w].new_version = nv,
                                !.w[w].pc = IF Truthy(nv) THEN "update" ELSE "nonew"]
    /\ UNCHANGED <<store, tableExists>>
    /\ ParFrame

\* main lines 168-169: update_current_version_in_db(group_id, artifact_id, new_version)
ParUpdate(w) ==
    /\ par.w[w].pc = "update"
    /\ store' = update_current_version_in_db(store, par.w[w].id, par.w[w].new_version, "ok")
    /\ tableExists' = TRUE
    /\ par' = [par EXCEPT !.w[w].pc = "body"]
    /\ ParFrame

\* main lines 171-176: the body of the notification reads the store again.
ParBuildBody(w) ==
    /\ par.w[w].pc = "body"
    /\ \E v \in SelectVersion(store, par.w[w].id) :
         par' = [par EXCEPT !.w[w].previous = v, !.w[w].pc = "notify"]
    /\ tableExists' = TRUE
    /\ UNCHANGED store
    /\ ParFrame

\* main lines 178-181: the notification is printed; the iteration ends.
ParNotify(w) ==
    /\ par.w[w].pc = "notify"
    /\ par' = [par EXCEPT !.w[w].emitted = TRUE, !.w[w].pc = "end"]
    /\ UNCHANGED <<store, tableExists>>
    /\ ParFrame

\* main lines 184-186: no new version; the store is read again.
ParNoNew(w) ==
    /\ par.w[w].pc = "nonew"
    /\ \E v \in SelectVersion(store, par.w[w].id) :
         par' = [par EXCEPT !.w[w].pc = IF v = None THEN "first_resolve" ELSE "end"]
    /\ tableExists' = TRUE
    /\ UNCHANGED store
    /\ ParFrame

\* main line 187: first_version = get_latest_version(group_id, artifact_id)
ParFirstResolve(w) ==
    /\ par.w[w].pc = "first_resolve"
    /\ \E first \in ResolverResults :
         par' = [par EXCEPT !.w[w].first_version = first, !.w[w].pc = "first_update"]
    /\ UNCHANGED <<store, tableExists>>
    /\ ParFrame

\* main lines 188-189: update_current_version_in_db(..., first_version).
ParFirstUpdate(w) ==
    /\ par.w[w].pc = "first_update"
    /\ store' = update_current_version_in_db(store, par.w[w].id, par.w[w].first_version, "ok")
    /\ tableExists' = TRUE
    /\ par' = [par EXCEPT !.w[w].pc = "end"]
    /\ ParFrame

NextPar ==
    \/ \E w \in Workers : ParCheckGet(w)
    \/ \E w \in Workers : ParCheckResolve(w)
    \/ \E w \in Workers : ParUpdate(w)
    \/ \E w \in Workers : ParBuildBody(w)
    \/ \E w \in Workers : ParNotify(w)
    \/ \E w \in Workers : ParNoNew(w)
    \/ \E w \in Workers : ParFirstResolve(w)
    \/ \E w \in Workers : ParFirstUpdate(w)

SpecPar == InitPar /\ [][NextPar]_vars

(* ------------------------------ claims -------------------------------- *)

\* The rows the store st holds for identifier id.
RowsOf(st, id) == {r \in st : r.id = id}

\* The rows the store st holds for the other identifiers.
OtherRows(st, id) == {r \in st : r.id # id}

\* A reconciliation has just completed; last holds what it found and did.
Completed == last # NoRec

\* C1 (write-through baseline): after a reconciliation of an identifier in which
\* the remote resolution succeeded with version v, the store holds exactly the
\* record (identifier, v), whatever the store held before (nothing, v, or another
\* version) and whether or not a notification was emitted.
C1_WriteThrough ==
    (Completed /\ Resolved(last) # None) =>
        /\ RowsOf(last.after, last.id) = {[id |-> last.id, ver |-> Resolved(last)]}
        /\ store = last.after

\* C1 witness: a completed reconciliation that resolved the version the store
\* already held and emitted no notification, after one that emitted one.
C1_Witness ==
    /\ Completed
    /\ last.latest_version # None
    /\ RowsOf(last.before, last.id) = {[id |-> last.id, ver |-> last.latest_version]}
    /\ ~last.emitted
    /\ prev.id # Malformed

\* C2 (no store mutation on failure), as claimed: when the remote resolution of
\* a reconciliation fails (no lookup of it yields a version), the store after it
\* is the store before it: a prior record keeps its version and no record is
\* created.
C2_NoMutationOnFailure ==
    (Completed /\ Resolved(last) = None) => last.after = last.before

\* C3 (notified/persisted consistency), as claimed: when the notification
\* announcing version v for an identifier is emitted, the store holds the record
\* (identifier, v), also when the store write raised a storage fault. Notify
\* leaves the store alone, so the store at emission is the store after it.
C3_NotifiedIsPersisted ==
    (Completed /\ last.emitted) =>
        [id |-> last.id, ver |-> last.payload.new] \in last.after

\* C4 (first-seen): for an identifier with no record, one reconciliation whose
\* resolution succeeds with v is a FirstSeen transition carrying v and leaves
\* exactly one record for the identifier, with version v; the records of the
\* other identifiers are unchanged.
C4_FirstSeen ==
    (Completed /\ RowsOf(last.before, last.id) = {} /\ last.latest_version # None) =>
        /\ TransitionOf(last) = "FirstSeen"
        /\ last.new_version = last.latest_version
        /\ RowsOf(last.after, last.id) = {[id |-> last.id, ver |-> last.latest_version]}
        /\ OtherRows(last.after, last.id) = OtherRows(last.before, last.id)

\* C4 witness: a completed first-seen reconciliation beside another record.
C4_Witness ==
    /\ Completed
    /\ RowsOf(last.before, last.id) = {}
    /\ OtherRows(last.before, last.id) # {}
    /\ last.latest_version # None
    /\ last.writes = 1

\* C5 (change detection is string inequality): when the stored version prior and
\* the resolved version latest differ, the reconciliation is Upgraded(prior,
\* latest) and stores latest, whichever of the two is the greater.
C5_ExactInequality ==
    \A prior, latest \in Versions :
        (/\ Completed
         /\ RowsOf(last.before, last.id) = {[id |-> last.id, ver |-> prior]}
         /\ last.latest_version = latest
         /\ prior # latest) =>
            /\ TransitionOf(last) = "Upgraded"
            /\ last.current_version = prior
            /\ last.new_version = latest
            /\ RowsOf(last.after, last.id) = {[id |-> last.id, ver |-> latest]}

\* C5 witness: a completed reconciliation of a remote downgrade.
C5_Witness ==
    /\ Completed
    /\ \E prior, latest \in Versions :
          /\ RowsOf(last.before, last.id) = {[id |-> last.id, ver |-> prior]}
          /\ last.latest_version = latest
          /\ latest < prior
    /\ last.emitted

\* C6 (idempotence): when an identifier is reconciled twice in succession and
\* every remote lookup of both reconciliations returns the same version, the
\* second reconciliation is Unchanged, writes nothing to the store and leaves
\* the store as the first one left it.
C6_Idempotence ==
    (Completed /\ prev.id = last.id /\ prev.remote # None /\ SameRemote(last) = prev.remote) =>
        /\ TransitionOf(last) = "Unchanged"
        /\ last.writes = 0
        /\ ~last.emitted
        /\ last.after = prev.after

\* C6 witness: the second of two successive reconciliations of one identifier
\* with the same remote version, the second being the first one of a run and
\* the first one the last of an earlier run.
C6_Witness ==
    /\ Completed
    /\ Len(processed) = 1
    /\ prev.id = last.id
    /\ prev.remote # None
    /\ SameRemote(last) = prev.remote

\* C7 (notification count), as claimed: a reconciliation hands send_email exactly
\* one notification when its transition is FirstSeen or Upgraded, and none when
\* it is Unchanged or ResolutionFailed.
C7_NotificationCount ==
    Completed =>
        Len(sent) - last.sentBefore =
            IF TransitionOf(last) \in {"FirstSeen", "Upgraded"} THEN 1 ELSE 0

\* C8 (notification payload), as claimed: the payload of an Upgraded transition
\* carries as previous version the version stored before the reconciliation, and
\* the payload of a FirstSeen transition carries no previous version; both name
\* the artifact and carry the resolved version as new version.
C8_Payload ==
    (Completed /\ last.emitted) =>
        /\ last.payload.id = last.id
        /\ last.payload.new = last.latest_version
        /\ TransitionOf(last) = "Upgraded" =>
               RowsOf(last.before, last.id) = {[id |-> last.id, ver |-> last.payload.previous]}
        /\ TransitionOf(last) = "FirstSeen" => last.payload.previous = None

\* The well-formed entries of the catalog, in order.
WellFormed(c) == SelectSeq(c, LAMBDA e : e # Malformed)

\* C9 (failure isolation): a failed resolution never ends the batch. The run
\* never dies and can always take its next step until the catalog is exhausted,
\* the reconciliations completed so far are those of the first well-formed
\* entries whatever failed among them, and when the run is done every
\* well-formed entry has been reconciled. Throughout, every identifier that
\* resolved in this run holds its last resolved version in the store.
C9_FailureIsolation ==
    /\ pc # "crashed"
    /\ pc \notin {"done", "exit"} => ENABLED Next
    /\ pc \in {"loop", "done"} =>
          /\ processed = SubSeq(WellFormed(catalog), 1, Len(processed))
          /\ \A id \in Ids :
                resolved[id] # None =>
                    RowsOf(store, id) = {[id |-> id, ver |-> resolved[id]]}
    /\ pc = "done" => processed = WellFormed(catalog)

\* C9 witness: a finished batch of three artifacts in which no lookup of the
\* second yielded a version and the third, another identifier, resolved one.
C9_Witness ==
    /\ pc = "done"
    /\ Len(processed) = 3
    /\ processed[2] # processed[3]
    /\ resolved[processed[2]] = None
    /\ resolved[processed[3]] # None
    /\ Completed /\ last.latest_version # None

\* C10 (single attempt), as claimed: a reconciliation calls the remote resolver
\* at most once, whatever the store held and whatever the resolver answered.
C10_SingleAttempt ==
    /\ rec.calls <= 1
    /\ last.calls <= 1

\* C11 (dispatch is downstream of persistence), as claimed: for every FirstSeen
\* or Upgraded transition the new version is written to the store, then the
\* notification is handed to send_email, the store is left as the write left it
\* whatever send_email reports, and the loop goes on.
C11_DispatchAfterPersist ==
    (Completed /\ TransitionOf(last) \in {"FirstSeen", "Upgraded"}) =>
        /\ last.writes = 1
        /\ [id |-> last.id, ver |-> last.new_version] \in last.after
        /\ Len(sent) = last.sentBefore + 1
        /\ store = last.after
        /\ pc \in {"loop", "done"}

\* C12 (storage-fault containment), as claimed: an iteration in which a store
\* call raised is given none of the outcomes FirstSeen, Upgraded or Unchanged
\* (neither of main's outcome lines 168 and 185 is printed for it), and no
\* store fault ends the run.
C12_FaultContainment ==
    /\ pc # "crashed"
    /\ (Completed /\ last.faulted) =>
           \A i \in 1..Len(last.lines) : last.lines[i] \notin {"new", "nonew"}

\* C13 (record lifecycle), as claimed: every step leaves at most one row per
\* identifier, every row a step creates or rewrites holds a version string the
\* resolver returned, and no step deletes the row of an identifier.
C13_RecordLifecycle ==
    [][ /\ \A r, q \in store' : r.id = q.id => r = q
        /\ \A r \in store' \ store : r.ver \in Versions
        /\ \A r \in store : \E q \in store' : q.id = r.id ]_vars

\* C14 (outcome reporting), as claimed: a completed iteration has printed exactly
\* one outcome line, the new-version line exactly for FirstSeen and Upgraded, the
\* no-new-version line exactly for Unchanged, so that a failed resolution is
\* given neither.
C14_OneOutcome ==
    Completed =>
        /\ Len(last.lines) = 1
        /\ last.lines[1] = "new" <=> TransitionOf(last) \in {"FirstSeen", "Upgraded"}
        /\ last.lines[1] = "nonew" <=> TransitionOf(last) = "Unchanged"

\* C15 (schema self-initialization), as claimed: on a store whose operations do
\* not fail, the pre-run listing never ends in a database error, with the table
\* or without it, and the table exists once an iteration has read or written.
C15_SchemaSelfInit ==
    /\ report # "error"
    /\ Completed => tableExists

\* C16 (fatal conditions are up front), as claimed: a run that ends for want of
\* settings has reconciled nothing, a run is never ended by anything else, a
\* store fault included, and a run that is done has reconciled every
\* well-formed entry of its catalog.
C16_FatalUpFront ==
    /\ pc = "exit" => processed = <<>>
    /\ pc # "crashed"
    /\ pc = "done" => processed = WellFormed(catalog)

\* C17 (malformed entries are skipped): the step taken at a catalog entry that
\* lacks its group or artifact identifier moves to the next entry and does
\* nothing else (no lookup, no store read or write, no notification, no
\* outcome), and a run that is done has reconciled the well-formed entries of
\* its catalog, all of them and in catalog order.
C17_MalformedSkipped ==
    [][ /\ (pc = "loop" /\ idx <= Len(catalog) /\ catalog[idx] = Malformed) =>
               /\ idx' = idx + 1
               /\ pc' = "loop"
               /\ UNCHANGED <<store, tableExists, rec, last, processed, resolved, sent, par>>
        /\ pc' = "done" => processed' = WellFormed(catalog') ]_vars

\* A run is done whose catalog had a malformed entry between two well-formed ones.
C17_Witness ==
    /\ pc = "done"
    /\ Len(catalog) = 3
    /\ catalog[2] = Malformed
    /\ Len(processed) = 2

\* C19 (no spurious notification), as claimed: an iteration that found the
\* resolved version already stored for its identifier emits no notification,
\* whether its read of the store succeeded or raised.
C19_NoSpuriousNotification ==
    (Completed /\ [id |-> last.id, ver |-> last.latest_version] \in last.before) =>
        ~last.emitted

\* Every worker has ended its loop body.
AllEnded == \A w \in Workers : par.w[w].pc = "end"

\* main lines 164-189 run alone on store st for identifier id, the lookup of
\* line 78 giving latest and that of line 187 (when reached) giving first: the
\* store it leaves.
reconcile(st, id, latest, first) ==
    LET current == CHOOSE v \in SelectVersion(st, id) : TRUE
        nv == check_for_new_version(current, latest)
    IN  IF Truthy(nv) THEN update_current_version_in_db(st, id, nv, "ok")
        ELSE IF current = None THEN update_current_version_in_db(st, id, first, "ok")
        ELSE st

\* The for loop of main over the artifacts of workers 1..n of ws, one after
\* the other, from store st, with the lookup results the workers had.
RECURSIVE SequentialRun(_, _, _)
SequentialRun(st, ws, n) ==
    IF n = 0 THEN st
    ELSE reconcile(SequentialRun(st, ws, n - 1), ws[n].id,
                   ws[n].latest_version, ws[n].first_version)

\* The transition the sequential loop produces for the artifact of worker n.
SequentialTransition(st, ws, n) ==
    Transition(CHOOSE v \in SelectVersion(SequentialRun(st, ws, n - 1), ws[n].id) : TRUE,
               ws[n].latest_version)

\* C18 (parallel workers on distinct identifiers): when the workers handle
\* pairwise different identifiers and all have ended, however their store
\* reads, lookups and writes interleaved, the store is the one the sequential
\* loop over the same artifacts leaves with the same lookup results, and each
\* worker produced the transition the sequential loop produces for its artifact.
C18_ParallelAsSequential ==
    (AllEnded /\ \A a, b \in Workers : a # b => par.w[a].id # par.w[b].id) =>
        /\ store = SequentialRun(par.init, par.w, Cardinality(Workers))
        /\ \A w \in Workers :
             Transition(par.w[w].current_version, par.w[w].latest_version) =
                 SequentialTransition(par.init, par.w, w)

\* Workers on different identifiers have ended, all having written a version
\* that the store did not hold before.
C18_Witness ==
    /\ AllEnded
    /\ \A a, b \in Workers : a # b => par.w[a].id # par.w[b].id
    /\ \A w \in Workers :
         /\ par.w[w].emitted
         /\ [id |-> par.w[w].id, ver |-> par.w[w].new_version] \in store \ par.init

\* The runs have ended, all were about identifier id, and every remote lookup
\* returned version v.
SameIdFixedRemote(id, v) ==
    /\ AllEnded
    /\ \A w \in Workers : par.w[w].id = id /\ par.w[w].latest_version = v

\* The version the runs' common store held for id before they started.
Baseline(id) == CHOOSE c \in SelectVersion(par.init, id) : TRUE

\* The runs that emitted a notification.
Notifiers == {w \in Workers : par.w[w].emitted}

\* C20 as claimed: concurrent runs on one identifier with the remote fixed at v
\* leave v in the store and notify the change at most once between them.
C20_NotifiedAtMostOnce ==
    \A id \in Ids, v \in Versions :
        SameIdFixedRemote(id, v) =>
            /\ [id |-> id, ver |-> v] \in store
            /\ Cardinality(Notifiers) <= 1

\* C20, amended: concurrent runs on one identifier with the remote fixed at v
\* leave v in the store. No run notifies when the baseline already is v; when
\* it is not, at least one run notifies, each run at most once, and the runs
\* that notify are exactly those that read the baseline before any write, so
\* that every one of the runs may notify the same change.
C20_NotifiedOncePerRun ==
    \A id \in Ids, v \in Versions :
        SameIdFixedRemote(id, v) =>
            /\ [id |-> id, ver |-> v] \in store
            /\ \A w \in Workers : par.w[w].first_version = None
            /\ Baseline(id) = v => Notifiers = {}
            /\ Baseline(id) # v =>
                   /\ Notifiers # {}
                   /\ Notifiers = {w \in Workers : par.w[w].current_version = Baseline(id)}
                   /\ \A w \in Workers \ Notifiers : par.w[w].current_version = v

\* Runs on one identifier have ended with the remote fixed at a version the
\* store did not hold, every one of them having notified the change.
C20_Witness ==
    \E id \in Ids, v \in Versions :
        /\ SameIdFixedRemote(id, v)
        /\ Baseline(id) \notin {v, None}
        /\ Notifiers = Workers
        /\ [id |-> id, ver |-> v] \in store

=============================================================================
